---- MODULE Spec2Model ----
(***************************************************************************)
(* The authentication core of KloudiousAssignment: the AuthProvider of     *)
(* src/contexts/AuthContext.tsx, the storage service it persists through   *)
(* (services/storage.ts) and the validators (utils/validation.ts).         *)
(*                                                                         *)
(* Strings are tuples of one-character strings.  The React state of the    *)
(* provider is user / users / isLoading.  signup and login are closures    *)
(* created by a render: they read the `users` of that render, which the    *)
(* variable `value` (the context value a caller holds) records.  Every     *)
(* operation runs synchronously up to its first await (the Call action)    *)
(* and finishes when AsyncStorage answers (the Done action).               *)
(***************************************************************************)
EXTENDS Naturals, Integers, Sequences, FiniteSets, TLC

VARIABLES
    user,        \* useState<User | null>: the current session
    users,       \* useState<User[]>: the in-memory registry
    isLoading,   \* useState<boolean>
    value,       \* the context value held by the caller: the `users` its closures captured
    storage,     \* AsyncStorage: key -> text, or Null
    loadpc,      \* position of loadStoredAuth
    storedUser,  \* local of loadStoredAuth
    pending,     \* operations awaiting AsyncStorage, in issue order
    result,      \* the outcome most recently delivered to a caller (for a login
                 \* that returned normally, with the user it authenticated)
    calls,       \* how many operations callers have invoked so far
    input,       \* the string handed to a validator of utils/validation.ts
    verdict,     \* the validator called last on `input`, and what it returned
    errors,      \* useState<FormErrors> of LoginScreen and of SignupScreen
    route,       \* the screen of the Login/Signup stack in front
    presses      \* how many times a Login or Sign Up button has been pressed

vars == <<user, users, isLoading, value, storage, loadpc, storedUser, pending, result,
          calls, input, verdict, errors, route, presses>>

screenVars == <<errors, route, presses>>

authVars == <<user, users, isLoading, value, storage, loadpc, storedUser, pending,
              result, calls>>

(***************************************************************************)
(* Bounds of the model.                                                    *)
(***************************************************************************)
MaxCalls == 3
MaxInFlight == 2
MaxPresses == 2

(***************************************************************************)
(* Values.                                                                 *)
(***************************************************************************)
Null == <<>>               \* null: no value
Corrupt == <<"corrupt">>   \* a text JSON.parse throws on

USER_KEY == "@auth_user"
USERS_KEY == "@auth_users"

Whitespace == {" ", "\t"}

secret == <<"s", "e", "c", "r", "e", "t">>
SECRET == <<"S", "E", "C", "R", "E", "T">>
blanks == <<" ", " ", " ", " ", " ", " ">>

\* the arguments callers pass: blank, malformed and well-formed ones
Names == { <<" ">>, <<"A">> }
Emails == { <<" ">>, <<"a", "@">>, <<"a", "@", "b">>, <<"A", "@", "b">> }
Passwords == { blanks, <<"s", "e", "c", "r", "e">>, secret, SECRET }

(***************************************************************************)
(* utils/validation.ts                                                     *)
(***************************************************************************)
RECURSIVE indexOf(_, _, _)
\* String.prototype.indexOf from position `from` (0-based); -1 when absent
indexOf(s, ch, from) ==
    IF from >= Len(s) THEN -1
    ELSE IF s[from + 1] = ch THEN from
    ELSE indexOf(s, ch, from + 1)

RECURSIVE trimStart(_)
trimStart(s) ==
    IF s # <<>> /\ Head(s) \in Whitespace THEN trimStart(Tail(s)) ELSE s

RECURSIVE trimEnd(_)
trimEnd(s) ==
    IF s # <<>> /\ s[Len(s)] \in Whitespace
    THEN trimEnd(SubSeq(s, 1, Len(s) - 1))
    ELSE s

trim(s) == trimEnd(trimStart(s))

\* validateEmail looking at the two ends of the string, not at the first "@"
validateEmailStrictEnds(email) ==
    IF email = <<>> THEN FALSE
    ELSE IF indexOf(email, "@", 0) = -1 THEN FALSE
    ELSE IF email[1] = "@" THEN FALSE
    ELSE IF email[Len(email)] = "@" THEN FALSE
    ELSE TRUE

\* validateEmail without the check for characters after "@"
validateEmailNoDomainCheck(email) ==
    IF email = <<>> THEN FALSE
    ELSE LET atIndex == indexOf(email, "@", 0)
         IN  IF atIndex = -1 THEN FALSE
             ELSE IF atIndex = 0 THEN FALSE
             ELSE TRUE

validateEmail(email) ==
    IF email = <<>> THEN FALSE
    ELSE LET atIndex == indexOf(email, "@", 0)
         IN  IF atIndex = -1 THEN FALSE
             ELSE IF atIndex = 0 THEN FALSE
             ELSE IF atIndex = Len(email) - 1 THEN FALSE
             ELSE TRUE

MinPasswordLength == 6

\* validatePassword counting the characters left after trimming
validatePasswordTrimmed(password) ==
    IF password = <<>> THEN FALSE
    ELSE Len(trim(password)) >= MinPasswordLength

validatePassword(password) ==
    IF password = <<>> THEN FALSE
    ELSE Len(password) >= MinPasswordLength

\* validateRequired without the trim
validateRequiredNoTrim(v) ==
    IF v = <<>> THEN FALSE
    ELSE Len(v) > 0

validateRequired(v) ==
    IF v = <<>> THEN FALSE
    ELSE Len(trim(v)) > 0

(***************************************************************************)
(* services/storage.ts: JSON text of a User and of a User[].  A text is    *)
(* the sequence of its "key":value members in the order JSON.stringify     *)
(* emits them; Corrupt is any text JSON.parse throws on.                   *)
(***************************************************************************)
members(u) ==
    << <<"name", u.name>>, <<"email", u.email>>, <<"password", u.password>> >>

member(ms, key) ==
    LET i == CHOOSE i \in 1..Len(ms) : ms[i][1] = key IN ms[i][2]

object(ms) ==
    [name |-> member(ms, "name"), email |-> member(ms, "email"),
     password |-> member(ms, "password")]

\* JSON.stringify(user) and JSON.parse of that text
stringifyUser(u) == <<"json", members(u)>>

parseUser(text) == object(text[2])

\* JSON.stringify(users) and JSON.parse of that text
stringifyUsers(us) == <<"json", [i \in 1..Len(us) |-> members(us[i])]>>

parseUsers(text) == [i \in 1..Len(text[2]) |-> object(text[2][i])]

\* getUser: null when the key is absent, the read fails or the text is corrupt
getUser(readOk) ==
    IF ~readOk THEN Null
    ELSE IF storage[USER_KEY] = Null THEN Null
    ELSE IF storage[USER_KEY] = Corrupt THEN Null
    ELSE parseUser(storage[USER_KEY])

\* getUsers: [] when the key is absent, the read fails or the text is corrupt
getUsers(readOk) ==
    IF ~readOk THEN <<>>
    ELSE IF storage[USERS_KEY] = Null THEN <<>>
    ELSE IF storage[USERS_KEY] = Corrupt THEN <<>>
    ELSE parseUsers(storage[USERS_KEY])

(***************************************************************************)
(* contexts/AuthContext.tsx                                                *)
(***************************************************************************)
\* Array.prototype.find(u => u.email === email): the first match, or Null
\* String.prototype.toLowerCase over the letters the arguments use
toLowerCase(str) ==
    [i \in 1..Len(str) |->
        CASE str[i] = "A" -> "a"
          [] str[i] = "B" -> "b"
          [] OTHER -> str[i]]

\* a lookup that ignores the case of letters
findIgnoringCase(us, email) ==
    IF \E i \in 1..Len(us) : toLowerCase(us[i].email) = toLowerCase(email)
    THEN us[CHOOSE i \in 1..Len(us) :
                /\ toLowerCase(us[i].email) = toLowerCase(email)
                /\ \A j \in 1..(i - 1) : toLowerCase(us[j].email) # toLowerCase(email)]
    ELSE Null

find(us, email) ==
    IF \E i \in 1..Len(us) : us[i].email = email
    THEN us[CHOOSE i \in 1..Len(us) :
                /\ us[i].email = email
                /\ \A j \in 1..(i - 1) : us[j].email # email]
    ELSE Null

Outcome(op, outcome) == [op |-> op, outcome |-> outcome]

\* signup without its duplicate-email check
signupCheckNoDuplicate(name, email, password, us) ==
    IF ~validateRequired(name) THEN "Name is required"
    ELSE IF ~validateRequired(email) THEN "Email is required"
    ELSE IF ~validateRequired(password) THEN "Password is required"
    ELSE IF ~validateEmail(email) THEN "Invalid email format"
    ELSE IF ~validatePassword(password) THEN "Password must be at least 6 characters"
    ELSE "ok"

\* signup validating the formats before the required password
signupCheckFormatFirst(name, email, password, us) ==
    IF ~validateRequired(name) THEN "Name is required"
    ELSE IF ~validateRequired(email) THEN "Email is required"
    ELSE IF ~validateEmail(email) THEN "Invalid email format"
    ELSE IF ~validateRequired(password) THEN "Password is required"
    ELSE IF ~validatePassword(password) THEN "Password must be at least 6 characters"
    ELSE IF find(us, email) # Null THEN "Email already registered"
    ELSE "ok"

\* signup taking an email as registered only with the same password
signupCheckSamePassword(name, email, password, us) ==
    IF ~validateRequired(name) THEN "Name is required"
    ELSE IF ~validateRequired(email) THEN "Email is required"
    ELSE IF ~validateRequired(password) THEN "Password is required"
    ELSE IF ~validateEmail(email) THEN "Invalid email format"
    ELSE IF ~validatePassword(password)
         THEN "Password must be at least 6 characters"
    ELSE IF \E i \in 1..Len(us) : us[i].email = email /\ us[i].password = password
         THEN "Email already registered"
    ELSE "ok"

\* the checks of signup, in order: the message thrown, or "ok"
signupCheck(name, email, password, us) ==
    IF ~validateRequired(name) THEN "Name is required"
    ELSE IF ~validateRequired(email) THEN "Email is required"
    ELSE IF ~validateRequired(password) THEN "Password is required"
    ELSE IF ~validateEmail(email) THEN "Invalid email format"
    ELSE IF ~validatePassword(password) THEN "Password must be at least 6 characters"
    ELSE IF find(us, email) # Null THEN "Email already registered"
    ELSE "ok"

\* login that tells an unknown email from a wrong password
loginCheckEnumerating(email, password, us) ==
    IF ~validateRequired(email) THEN "Email is required"
    ELSE IF ~validateRequired(password) THEN "Password is required"
    ELSE IF ~validateEmail(email) THEN "Invalid email format"
    ELSE LET foundUser == find(us, email)
         IN  IF foundUser = Null THEN "User not found"
             ELSE IF foundUser.password # password THEN "Invalid credentials"
             ELSE "ok"

\* login that accepts any password of a registered email
loginCheckAnyPassword(email, password, us) ==
    IF ~validateRequired(email) THEN "Email is required"
    ELSE IF ~validateRequired(password) THEN "Password is required"
    ELSE IF ~validateEmail(email) THEN "Invalid email format"
    ELSE IF find(us, email) = Null THEN "Invalid credentials"
    ELSE "ok"

\* the checks of login, in order: the message thrown, or "ok"
loginCheck(email, password, us) ==
    IF ~validateRequired(email) THEN "Email is required"
    ELSE IF ~validateRequired(password) THEN "Password is required"
    ELSE IF ~validateEmail(email) THEN "Invalid email format"
    ELSE LET foundUser == find(us, email)
         IN  IF foundUser = Null \/ foundUser.password # password
             THEN "Invalid credentials"
             ELSE "ok"

NoDuplicateEmail(us) ==
    \A i, j \in 1..Len(us) : us[i].email = us[j].email => i = j

\* FormErrors without any message: {} ("" stands for a missing member)
NoErrors == [name |-> "", email |-> "", password |-> "", general |-> ""]

\* the two screens as mounted: useState<FormErrors>({})
NoScreenErrors == [Login |-> NoErrors, Signup |-> NoErrors]

\* no validator has been called
NoVerdict == [fn |-> "none", out |-> FALSE]

\* what the two keys may hold when the application starts
StoredUser == [name |-> <<"A">>, email |-> <<"a", "@", "b">>, password |-> secret]

InitialSessions == {Null, Corrupt, stringifyUser(StoredUser)}

InitialRegistries == {Null, Corrupt, stringifyUsers(<<StoredUser>>)}

Init ==
    /\ user = Null
    /\ users = <<>>
    /\ isLoading = TRUE
    /\ value = [users |-> <<>>]
    /\ \E session \in InitialSessions, registry \in InitialRegistries :
          storage = [k \in {USER_KEY, USERS_KEY} |->
                        IF k = USER_KEY THEN session ELSE registry]
    /\ loadpc = "getUser"
    /\ storedUser = Null
    /\ pending = <<>>
    /\ result = Outcome("none", "none")
    /\ calls = 0
    /\ input = <<>>
    /\ verdict = NoVerdict
    /\ errors = NoScreenErrors
    /\ route = "Login"
    /\ presses = 0

\* loadStoredAuth, up to the answer of getUser()
LoadGetUser(readOk) ==
    /\ loadpc = "getUser"
    /\ isLoading' = TRUE
    /\ storedUser' = getUser(readOk)
    /\ loadpc' = "getUsers"
    /\ UNCHANGED <<user, users, value, storage, pending, result, calls>>
    /\ UNCHANGED <<input, verdict>>

\* loadStoredAuth that never restores the stored session
LoadGetUsersNoSetUser(readOk) ==
    /\ loadpc = "getUsers"
    /\ user' = user
    /\ users' = getUsers(readOk)
    /\ isLoading' = FALSE
    /\ loadpc' = "done"
    /\ storedUser' = Null
    /\ UNCHANGED <<value, storage, pending, result, calls>>
    /\ UNCHANGED <<input, verdict>>

\* loadStoredAuth that gives the registry up when it found no session
LoadGetUsersDependent(readOk) ==
    /\ loadpc = "getUsers"
    /\ user' = IF storedUser # Null THEN storedUser ELSE user
    /\ users' = IF storedUser = Null THEN <<>> ELSE getUsers(readOk)
    /\ isLoading' = FALSE
    /\ loadpc' = "done"
    /\ storedUser' = Null
    /\ UNCHANGED <<value, storage, pending, result, calls>>
    /\ UNCHANGED <<input, verdict>>

\* loadStoredAuth, from the answer of getUsers() to the end
LoadGetUsers(readOk) ==
    /\ loadpc = "getUsers"
    /\ user' = IF storedUser # Null THEN storedUser ELSE user
    /\ users' = getUsers(readOk)
    /\ isLoading' = FALSE
    /\ loadpc' = "done"
    /\ storedUser' = Null
    /\ UNCHANGED <<value, storage, pending, result, calls>>
    /\ UNCHANGED <<input, verdict>>

\* a render publishes a new context value, and the caller picks it up
Render ==
    /\ value # [users |-> users]
    /\ value' = [users |-> users]
    /\ UNCHANGED <<user, users, isLoading, storage, loadpc, storedUser, pending, result, calls>>
    /\ UNCHANGED <<input, verdict>>

\* signup that keeps the new user out of the React state
SignupCallNoSetUsers(name, email, password) ==
    /\ calls < MaxCalls
    /\ calls' = calls + 1
    /\ LET err == signupCheck(name, email, password, value.users)
           newUser == [name |-> name, email |-> email, password |-> password]
           updatedUsers == Append(value.users, newUser)
       IN  IF err # "ok"
           THEN /\ result' = Outcome("signup", err)
                /\ UNCHANGED <<user, users, isLoading, value, storage, loadpc,
                               storedUser, pending>>
           ELSE /\ Len(pending) < MaxInFlight
                /\ pending' = Append(pending, [op |-> "signup", arg |-> updatedUsers])
                /\ UNCHANGED <<user, users, isLoading, value, storage, loadpc,
                               storedUser, result>>
    /\ UNCHANGED <<input, verdict>>

\* signup that also authenticates the new user
SignupCallAutoLogin(name, email, password) ==
    /\ calls < MaxCalls
    /\ calls' = calls + 1
    /\ LET err == signupCheck(name, email, password, value.users)
           newUser == [name |-> name, email |-> email, password |-> password]
           updatedUsers == Append(value.users, newUser)
       IN  IF err # "ok"
           THEN /\ result' = Outcome("signup", err)
                /\ UNCHANGED <<user, users, isLoading, value, storage, loadpc,
                               storedUser, pending>>
           ELSE /\ Len(pending) < MaxInFlight
                /\ users' = updatedUsers
                /\ user' = newUser
                /\ pending' = Append(pending, [op |-> "signup", arg |-> updatedUsers])
                /\ UNCHANGED <<isLoading, value, storage, loadpc, storedUser, result>>
    /\ UNCHANGED <<input, verdict>>

\* signup that replaces the registry by the new user alone
SignupCallReplace(name, email, password) ==
    /\ calls < MaxCalls
    /\ calls' = calls + 1
    /\ LET err == signupCheck(name, email, password, value.users)
           newUser == [name |-> name, email |-> email, password |-> password]
           updatedUsers == <<newUser>>
       IN  IF err # "ok"
           THEN /\ result' = Outcome("signup", err)
                /\ UNCHANGED <<user, users, isLoading, value, storage, loadpc,
                               storedUser, pending>>
           ELSE /\ Len(pending) < MaxInFlight
                /\ users' = updatedUsers
                /\ pending' = Append(pending, [op |-> "signup", arg |-> updatedUsers])
                /\ UNCHANGED <<user, isLoading, value, storage, loadpc,
                               storedUser, result>>
    /\ UNCHANGED <<input, verdict>>

\* signup that adds the new user to the registry found in storage and
\* persists that
SignupCallSavesStored(name, email, password) ==
    /\ calls < MaxCalls
    /\ calls' = calls + 1
    /\ LET err == signupCheck(name, email, password, value.users)
           newUser == [name |-> name, email |-> email, password |-> password]
           updatedUsers == Append(value.users, newUser)
       IN  IF err # "ok"
           THEN /\ result' = Outcome("signup", err)
                /\ UNCHANGED <<user, users, isLoading, value, storage, loadpc,
                               storedUser, pending>>
           ELSE /\ Len(pending) < MaxInFlight
                /\ users' = updatedUsers
                /\ pending' = Append(pending, [op |-> "signup",
                                               arg |-> Append(getUsers(TRUE), newUser)])
                /\ UNCHANGED <<user, isLoading, value, storage, loadpc,
                               storedUser, result>>
    /\ UNCHANGED <<input, verdict>>

\* signup up to `await saveUsers(updatedUsers)`
SignupCall(name, email, password) ==
    /\ calls < MaxCalls
    /\ calls' = calls + 1
    /\ LET err == signupCheck(name, email, password, value.users)
           newUser == [name |-> name, email |-> email, password |-> password]
           updatedUsers == Append(value.users, newUser)
       IN  IF err # "ok"
           THEN /\ result' = Outcome("signup", err)
                /\ UNCHANGED <<user, users, isLoading, value, storage, loadpc,
                               storedUser, pending>>
           ELSE /\ Len(pending) < MaxInFlight
                /\ users' = updatedUsers
                /\ pending' = Append(pending, [op |-> "signup", arg |-> updatedUsers])
                /\ UNCHANGED <<user, isLoading, value, storage, loadpc,
                               storedUser, result>>
    /\ UNCHANGED <<input, verdict>>

\* login that drops the session in memory when it rejects the call
LoginCallClearsOnFailure(email, password) ==
    /\ calls < MaxCalls
    /\ calls' = calls + 1
    /\ LET err == loginCheck(email, password, value.users)
           foundUser == find(value.users, email)
       IN  IF err # "ok"
           THEN /\ result' = Outcome("login", err)
                /\ user' = Null
                /\ UNCHANGED <<users, isLoading, value, storage, loadpc,
                               storedUser, pending>>
           ELSE /\ Len(pending) < MaxInFlight
                /\ user' = foundUser
                /\ pending' = Append(pending, [op |-> "login", arg |-> foundUser])
                /\ UNCHANGED <<users, isLoading, value, storage, loadpc,
                               storedUser, result>>
    /\ UNCHANGED <<input, verdict>>

\* login up to `await saveUser(foundUser)`
LoginCall(email, password) ==
    /\ calls < MaxCalls
    /\ calls' = calls + 1
    /\ LET err == loginCheck(email, password, value.users)
           foundUser == find(value.users, email)
       IN  IF err # "ok"
           THEN /\ result' = Outcome("login", err)
                /\ UNCHANGED <<user, users, isLoading, value, storage, loadpc,
                               storedUser, pending>>
           ELSE /\ Len(pending) < MaxInFlight
                /\ user' = foundUser
                /\ pending' = Append(pending, [op |-> "login", arg |-> foundUser])
                /\ UNCHANGED <<users, isLoading, value, storage, loadpc,
                               storedUser, result>>
    /\ UNCHANGED <<input, verdict>>

\* logout that leaves the session in memory
LogoutCallKeepsUser ==
    /\ calls < MaxCalls
    /\ calls' = calls + 1
    /\ Len(pending) < MaxInFlight
    /\ pending' = Append(pending, [op |-> "logout", arg |-> Null])
    /\ UNCHANGED <<user, users, isLoading, value, storage, loadpc, storedUser, result>>
    /\ UNCHANGED <<input, verdict>>

\* logout that raises the loading flag
LogoutCallLoading ==
    /\ calls < MaxCalls
    /\ calls' = calls + 1
    /\ Len(pending) < MaxInFlight
    /\ user' = Null
    /\ isLoading' = TRUE
    /\ pending' = Append(pending, [op |-> "logout", arg |-> Null])
    /\ UNCHANGED <<users, value, storage, loadpc, storedUser, result>>
    /\ UNCHANGED <<input, verdict>>

\* logout up to `await removeUser()`
LogoutCall ==
    /\ calls < MaxCalls
    /\ calls' = calls + 1
    /\ Len(pending) < MaxInFlight
    /\ user' = Null
    /\ pending' = Append(pending, [op |-> "logout", arg |-> Null])
    /\ UNCHANGED <<users, isLoading, value, storage, loadpc, storedUser, result>>
    /\ UNCHANGED <<input, verdict>>

Remove(s, i) == SubSeq(s, 1, i - 1) \o SubSeq(s, i + 1, Len(s))

\* signup taking the new user back out of memory when the write fails
SaveUsersDoneRollback(i, writeOk) ==
    /\ i \in 1..Len(pending)
    /\ pending[i].op = "signup"
    /\ IF writeOk
       THEN /\ storage' = [storage EXCEPT ![USERS_KEY] = stringifyUsers(pending[i].arg)]
            /\ result' = Outcome("signup", "ok")
            /\ users' = users
       ELSE /\ storage' = storage
            /\ result' = Outcome("signup", "Failed to save user data")
            /\ users' = SubSeq(pending[i].arg, 1, Len(pending[i].arg) - 1)
    /\ pending' = Remove(pending, i)
    /\ UNCHANGED <<user, isLoading, value, loadpc, storedUser, calls>>
    /\ UNCHANGED <<input, verdict>>

\* signup persisting the new user alone
SaveUsersDoneOnlyNew(i, writeOk) ==
    /\ i \in 1..Len(pending)
    /\ pending[i].op = "signup"
    /\ IF writeOk
       THEN /\ storage' = [storage EXCEPT ![USERS_KEY] =
                              stringifyUsers(<< pending[i].arg[Len(pending[i].arg)] >>)]
            /\ result' = Outcome("signup", "ok")
       ELSE /\ storage' = storage
            /\ result' = Outcome("signup", "Failed to save user data")
    /\ pending' = Remove(pending, i)
    /\ UNCHANGED <<user, users, isLoading, value, loadpc, storedUser, calls>>
    /\ UNCHANGED <<input, verdict>>

\* AsyncStorage.setItem(USERS_KEY, ...) answers, and signup returns
SaveUsersDone(i, writeOk) ==
    /\ i \in 1..Len(pending)
    /\ pending[i].op = "signup"
    /\ IF writeOk
       THEN /\ storage' = [storage EXCEPT ![USERS_KEY] = stringifyUsers(pending[i].arg)]
            /\ result' = Outcome("signup", "ok")
       ELSE /\ storage' = storage
            /\ result' = Outcome("signup", "Failed to save user data")
    /\ pending' = Remove(pending, i)
    /\ UNCHANGED <<user, users, isLoading, value, loadpc, storedUser, calls>>
    /\ UNCHANGED <<input, verdict>>

\* login clearing the session in memory when the write fails
SaveUserDoneRollback(i, writeOk) ==
    /\ i \in 1..Len(pending)
    /\ pending[i].op = "login"
    /\ IF writeOk
       THEN /\ storage' = [storage EXCEPT ![USER_KEY] = stringifyUser(pending[i].arg)]
            /\ result' = [op |-> "login", outcome |-> "ok", user |-> pending[i].arg]
            /\ user' = user
       ELSE /\ storage' = storage
            /\ result' = Outcome("login", "Failed to save session")
            /\ user' = Null
    /\ pending' = Remove(pending, i)
    /\ UNCHANGED <<users, isLoading, value, loadpc, storedUser, calls>>
    /\ UNCHANGED <<input, verdict>>

\* AsyncStorage.setItem(USER_KEY, ...) answers, and login returns
SaveUserDone(i, writeOk) ==
    /\ i \in 1..Len(pending)
    /\ pending[i].op = "login"
    /\ IF writeOk
       THEN /\ storage' = [storage EXCEPT ![USER_KEY] = stringifyUser(pending[i].arg)]
            /\ result' = [op |-> "login", outcome |-> "ok", user |-> pending[i].arg]
       ELSE /\ storage' = storage
            /\ result' = Outcome("login", "Failed to save session")
    /\ pending' = Remove(pending, i)
    /\ UNCHANGED <<user, users, isLoading, value, loadpc, storedUser, calls>>
    /\ UNCHANGED <<input, verdict>>

\* logout whose removal names the registry key
RemoveUserDoneWrongKey(i, removeOk) ==
    /\ i \in 1..Len(pending)
    /\ pending[i].op = "logout"
    /\ IF removeOk
       THEN /\ storage' = [storage EXCEPT ![USERS_KEY] = Null]
            /\ result' = Outcome("logout", "ok")
       ELSE /\ storage' = storage
            /\ result' = Outcome("logout", "Failed to clear session")
    /\ pending' = Remove(pending, i)
    /\ UNCHANGED <<user, users, isLoading, value, loadpc, storedUser, calls>>
    /\ UNCHANGED <<input, verdict>>

\* AsyncStorage.removeItem(USER_KEY) answers, and logout returns
RemoveUserDone(i, removeOk) ==
    /\ i \in 1..Len(pending)
    /\ pending[i].op = "logout"
    /\ IF removeOk
       THEN /\ storage' = [storage EXCEPT ![USER_KEY] = Null]
            /\ result' = Outcome("logout", "ok")
       ELSE /\ storage' = storage
            /\ result' = Outcome("logout", "Failed to clear session")
    /\ pending' = Remove(pending, i)
    /\ UNCHANGED <<user, users, isLoading, value, loadpc, storedUser, calls>>
    /\ UNCHANGED <<input, verdict>>

\* the application is closed and launched again over the same storage
Restart ==
    /\ loadpc = "done"
    /\ user' = Null
    /\ users' = <<>>
    /\ isLoading' = TRUE
    /\ value' = [users |-> <<>>]
    /\ loadpc' = "getUser"
    /\ storedUser' = Null
    /\ pending' = <<>>
    /\ UNCHANGED <<storage, result, calls>>
    /\ UNCHANGED <<input, verdict>>

\* well-formed arguments, for the callers below that explore interleavings
\* and relaunches rather than malformed input
SomeNames == { <<"A">> }
SomeEmails == { <<"a", "@", "b">>, <<"A", "@", "b">> }
SomePasswords == { secret }

\* Any caller: calls at any time, before Ready and while others are in flight,
\* through a context value that may be older than the last render.
Next ==
    \/ \E readOk \in BOOLEAN : LoadGetUser(readOk) /\ UNCHANGED screenVars
    \/ \E readOk \in BOOLEAN : LoadGetUsers(readOk) /\ UNCHANGED screenVars
    \/ Render /\ UNCHANGED screenVars
    \/ \E n \in SomeNames, e \in SomeEmails, p \in SomePasswords : SignupCall(n, e, p) /\ UNCHANGED screenVars
    \/ \E e \in SomeEmails, p \in SomePasswords \cup {SECRET} : LoginCall(e, p) /\ UNCHANGED screenVars
    \/ LogoutCall /\ UNCHANGED screenVars
    \/ \E i \in 1..MaxInFlight, ok \in BOOLEAN : SaveUsersDone(i, ok) /\ UNCHANGED screenVars
    \/ \E i \in 1..MaxInFlight, ok \in BOOLEAN : SaveUserDone(i, ok) /\ UNCHANGED screenVars
    \/ \E i \in 1..MaxInFlight, ok \in BOOLEAN : RemoveUserDone(i, ok) /\ UNCHANGED screenVars

Spec == Init /\ [][Next]_vars

\* The same, where each read loadStoredAuth awaits is answered in the end:
\* AsyncStorage settles the promise of getItem, with a value or an error.
LiveSpec ==
    /\ Init /\ [][Next]_vars
    /\ WF_vars(\E readOk \in BOOLEAN : LoadGetUser(readOk) /\ UNCHANGED screenVars)
    /\ WF_vars(\E readOk \in BOOLEAN : LoadGetUsers(readOk) /\ UNCHANGED screenVars)

\* A caller that waits for the load but not for one call to return before
\* the next, over a storage that answers every read, write and remove with
\* success, in any order.
ReliableNext ==
    \/ LoadGetUser(TRUE) /\ UNCHANGED screenVars
    \/ LoadGetUsers(TRUE) /\ UNCHANGED screenVars
    \/ Render /\ UNCHANGED screenVars
    \/ loadpc = "done" /\ \E n \in SomeNames, e \in SomeEmails, p \in SomePasswords :
                             SignupCall(n, e, p) /\ UNCHANGED screenVars
    \/ loadpc = "done" /\ \E e \in SomeEmails, p \in SomePasswords \cup {SECRET} :
                             LoginCall(e, p) /\ UNCHANGED screenVars
    \/ loadpc = "done" /\ LogoutCall /\ UNCHANGED screenVars
    \/ \E i \in 1..MaxInFlight : SaveUsersDone(i, TRUE) /\ UNCHANGED screenVars
    \/ \E i \in 1..MaxInFlight : SaveUserDone(i, TRUE) /\ UNCHANGED screenVars
    \/ \E i \in 1..MaxInFlight : RemoveUserDone(i, TRUE) /\ UNCHANGED screenVars

ReliableSpec == Init /\ [][ReliableNext]_vars

\* The caller the test-suite is (renderHook's result.current, every call awaited
\* inside act): it waits for isLoading = false, calls through the context value
\* of the latest render, and awaits each operation before the next.
Quiescent == loadpc = "done" /\ pending = <<>>

Fresh == value = [users |-> users]

MayCall == Quiescent /\ Fresh /\ ~isLoading

SeqNext ==
    \/ \E readOk \in BOOLEAN : LoadGetUser(readOk) /\ UNCHANGED screenVars
    \/ \E readOk \in BOOLEAN : LoadGetUsers(readOk) /\ UNCHANGED screenVars
    \/ Render /\ UNCHANGED screenVars
    \/ MayCall /\ \E n \in Names, e \in Emails, p \in Passwords : SignupCall(n, e, p) /\ UNCHANGED screenVars
    \/ MayCall /\ \E e \in Emails, p \in Passwords : LoginCall(e, p) /\ UNCHANGED screenVars
    \/ MayCall /\ LogoutCall /\ UNCHANGED screenVars
    \/ \E ok \in BOOLEAN : SaveUsersDone(1, ok) /\ UNCHANGED screenVars
    \/ \E ok \in BOOLEAN : SaveUserDone(1, ok) /\ UNCHANGED screenVars
    \/ \E ok \in BOOLEAN : RemoveUserDone(1, ok) /\ UNCHANGED screenVars

SeqSpec == Init /\ [][SeqNext]_vars

\* The same caller, over several launches of the application.
LaunchNext ==
    \/ \E readOk \in BOOLEAN : LoadGetUser(readOk) /\ UNCHANGED screenVars
    \/ \E readOk \in BOOLEAN : LoadGetUsers(readOk) /\ UNCHANGED screenVars
    \/ Render /\ UNCHANGED screenVars
    \/ MayCall /\ \E n \in SomeNames, e \in SomeEmails, p \in SomePasswords :
                      SignupCall(n, e, p) /\ UNCHANGED screenVars
    \/ MayCall /\ \E e \in SomeEmails, p \in SomePasswords \cup {SECRET} : LoginCall(e, p) /\ UNCHANGED screenVars
    \/ MayCall /\ LogoutCall /\ UNCHANGED screenVars
    \/ \E ok \in BOOLEAN : SaveUsersDone(1, ok) /\ UNCHANGED screenVars
    \/ \E ok \in BOOLEAN : SaveUserDone(1, ok) /\ UNCHANGED screenVars
    \/ \E ok \in BOOLEAN : RemoveUserDone(1, ok) /\ UNCHANGED screenVars
    \/ Quiescent /\ Restart /\ UNCHANGED screenVars

LaunchSpec == Init /\ [][LaunchNext]_vars

(***************************************************************************)
(* The validators on their own: any string over Alphabet of at most MaxLen *)
(* characters is handed to validateEmail, validatePassword and             *)
(* validateRequired.                                                       *)
(***************************************************************************)
MaxLen == 6

Alphabet == {"a", "b", "@", " ", "\t"}

Strings == UNION { [1..n -> Alphabet] : n \in 0..MaxLen }

ValidatorInit ==
    /\ user = Null
    /\ users = <<>>
    /\ isLoading = TRUE
    /\ value = [users |-> <<>>]
    /\ storage = [k \in {USER_KEY, USERS_KEY} |-> Null]
    /\ loadpc = "getUser"
    /\ storedUser = Null
    /\ pending = <<>>
    /\ result = Outcome("none", "none")
    /\ calls = 0
    /\ input \in Strings
    /\ verdict = NoVerdict
    /\ errors = NoScreenErrors
    /\ route = "Login"
    /\ presses = 0

ValidateEmail ==
    /\ verdict' = [fn |-> "validateEmail", out |-> validateEmail(input)]
    /\ UNCHANGED input
    /\ UNCHANGED authVars
    /\ UNCHANGED screenVars

ValidatePassword ==
    /\ verdict' = [fn |-> "validatePassword", out |-> validatePassword(input)]
    /\ UNCHANGED input
    /\ UNCHANGED authVars
    /\ UNCHANGED screenVars

ValidateRequired ==
    /\ verdict' = [fn |-> "validateRequired", out |-> validateRequired(input)]
    /\ UNCHANGED input
    /\ UNCHANGED authVars
    /\ UNCHANGED screenVars

ValidatorNext ==
    \/ ValidateEmail
    \/ ValidatePassword
    \/ ValidateRequired

ValidatorSpec == ValidatorInit /\ [][ValidatorNext]_vars

(***************************************************************************)
(* navigation/AppNavigator.tsx: what the navigator renders from the        *)
(* `user` and `isLoading` of useAuth().  "Auth" is the stack of the Login  *)
(* and Signup screens, which opens on Login.                               *)
(***************************************************************************)
\* a navigator that does not wait for the load
AppNavigatorIgnoresLoading ==
    IF user # Null THEN "Home" ELSE "Auth"

AppNavigator ==
    IF isLoading THEN "Loading"
    ELSE IF user # Null THEN "Home"
    ELSE "Auth"

(***************************************************************************)
(* screens/LoginScreen.tsx, screens/SignupScreen.tsx, screens/HomeScreen   *)
(* as the user drives them: one press at a time, on the screen the         *)
(* navigator shows, each handler awaited before the next press.            *)
(***************************************************************************)
\* LoginScreen.validateForm: the FormErrors it hands to setErrors
\* a validateForm that looks at the password only once the email is in order
LoginValidateFormEmailFirst(email, password) ==
    IF ~validateRequired(email) THEN [NoErrors EXCEPT !.email = "Email is required"]
    ELSE IF ~validateEmail(email) THEN [NoErrors EXCEPT !.email = "Invalid email format"]
    ELSE IF ~validateRequired(password)
         THEN [NoErrors EXCEPT !.password = "Password is required"]
    ELSE NoErrors

LoginValidateForm(email, password) ==
    [NoErrors EXCEPT
        !.email = IF ~validateRequired(email) THEN "Email is required"
                  ELSE IF ~validateEmail(email) THEN "Invalid email format"
                  ELSE "",
        !.password = IF ~validateRequired(password) THEN "Password is required"
                     ELSE ""]

\* a validateForm of the Signup screen that leaves the length of the
\* password to auth.signup
SignupValidateFormNoLength(name, email, password) ==
    [NoErrors EXCEPT
        !.name = IF ~validateRequired(name) THEN "Name is required" ELSE "",
        !.email = IF ~validateRequired(email) THEN "Email is required"
                  ELSE IF ~validateEmail(email) THEN "Invalid email format"
                  ELSE "",
        !.password = IF ~validateRequired(password) THEN "Password is required"
                     ELSE ""]

\* SignupScreen.validateForm: the FormErrors it hands to setErrors
SignupValidateForm(name, email, password) ==
    [NoErrors EXCEPT
        !.name = IF ~validateRequired(name) THEN "Name is required" ELSE "",
        !.email = IF ~validateRequired(email) THEN "Email is required"
                  ELSE IF ~validateEmail(email) THEN "Invalid email format"
                  ELSE "",
        !.password = IF ~validateRequired(password) THEN "Password is required"
                     ELSE IF ~validatePassword(password)
                          THEN "Password must be at least 6 characters"
                     ELSE ""]

\* setErrors({ general: errorMessage })
General(errorMessage) == [NoErrors EXCEPT !.general = errorMessage]

\* LoginScreen.handleLogin up to the await of auth.login, and its catch when
\* auth.login throws before awaiting.  An accepted login sets the user, so
\* the navigator replaces the Login/Signup stack by Home.
handleLogin(email, password) ==
    /\ AppNavigator = "Auth"
    /\ route = "Login"
    /\ presses < MaxPresses
    /\ presses' = presses + 1
    /\ LET newErrors == LoginValidateForm(email, password)
       IN  IF newErrors # NoErrors
           THEN /\ errors' = [errors EXCEPT !.Login = newErrors]
                /\ route' = route
                /\ UNCHANGED authVars
                /\ UNCHANGED <<input, verdict>>
           ELSE /\ LoginCall(email, password)
                /\ IF pending' = pending
                   THEN /\ errors' = [errors EXCEPT !.Login = General(result'.outcome)]
                        /\ route' = route
                   ELSE /\ errors' = NoScreenErrors
                        /\ route' = "Login"

\* auth.login returns to handleLogin, whose screen is no longer mounted
loginReturns(writeOk) ==
    /\ SaveUserDone(1, writeOk)
    /\ UNCHANGED screenVars

\* SignupScreen.handleSignup up to the await of auth.signup, and its catch
\* when auth.signup throws before awaiting
handleSignup(name, email, password) ==
    /\ AppNavigator = "Auth"
    /\ route = "Signup"
    /\ presses < MaxPresses
    /\ presses' = presses + 1
    /\ LET newErrors == SignupValidateForm(name, email, password)
       IN  IF newErrors # NoErrors
           THEN /\ errors' = [errors EXCEPT !.Signup = newErrors]
                /\ route' = route
                /\ UNCHANGED authVars
                /\ UNCHANGED <<input, verdict>>
           ELSE /\ SignupCall(name, email, password)
                /\ route' = route
                /\ IF pending' = pending
                   THEN errors' = [errors EXCEPT !.Signup = General(result'.outcome)]
                   ELSE errors' = [errors EXCEPT !.Signup = newErrors]

\* a handleSignup that navigates whatever auth.signup answered
signupReturnsNavigatesAnyway(writeOk) ==
    /\ SaveUsersDone(1, writeOk)
    /\ presses' = presses
    /\ route' = "Login"
    /\ errors' = [errors EXCEPT !.Signup = NoErrors]

\* auth.signup returns to handleSignup: navigation.navigate('Login'), which
\* leaves the Signup screen, or the catch
signupReturns(writeOk) ==
    /\ SaveUsersDone(1, writeOk)
    /\ presses' = presses
    /\ IF writeOk
       THEN /\ route' = "Login"
            /\ errors' = [errors EXCEPT !.Signup = NoErrors]
       ELSE /\ route' = route
            /\ errors' = [errors EXCEPT !.Signup = General(result'.outcome)]

\* HomeScreen.handleLogout up to the await of auth.logout
handleLogout ==
    /\ AppNavigator = "Home"
    /\ LogoutCall
    /\ UNCHANGED screenVars

\* auth.logout returns to handleLogout, which only logs an error
logoutReturns(removeOk) ==
    /\ RemoveUserDone(1, removeOk)
    /\ UNCHANGED screenVars

\* the link of LoginScreen: navigation.navigate('Signup')
goToSignup ==
    /\ AppNavigator = "Auth"
    /\ route = "Login"
    /\ route' = "Signup"
    /\ UNCHANGED <<errors, presses>>
    /\ UNCHANGED authVars
    /\ UNCHANGED <<input, verdict>>

\* the link of SignupScreen: navigation.navigate('Login')
goToLogin ==
    /\ AppNavigator = "Auth"
    /\ route = "Signup"
    /\ route' = "Login"
    /\ errors' = [errors EXCEPT !.Signup = NoErrors]
    /\ presses' = presses
    /\ UNCHANGED authVars
    /\ UNCHANGED <<input, verdict>>

ScreenNext ==
    \/ \E readOk \in BOOLEAN : LoadGetUser(readOk) /\ UNCHANGED screenVars
    \/ \E readOk \in BOOLEAN : LoadGetUsers(readOk) /\ UNCHANGED screenVars
    \/ Render /\ UNCHANGED screenVars
    \/ MayCall /\ \E e \in Emails, p \in Passwords : handleLogin(e, p)
    \/ MayCall /\ \E n \in Names, e \in Emails, p \in Passwords : handleSignup(n, e, p)
    \/ MayCall /\ handleLogout
    \/ MayCall /\ goToSignup
    \/ MayCall /\ goToLogin
    \/ \E ok \in BOOLEAN : loginReturns(ok)
    \/ \E ok \in BOOLEAN : signupReturns(ok)
    \/ \E ok \in BOOLEAN : logoutReturns(ok)

ScreenSpec == Init /\ [][ScreenNext]_vars

(***************************************************************************)
(* The forms with their fields filled in: any name of at most MaxNameLen   *)
(* characters, the registered email or any email of at most MaxEmailLen    *)
(* characters, and passwords around the minimum length are typed into the  *)
(* fields, over a stored registry, and Sign Up and Login are pressed.      *)
(***************************************************************************)
MaxNameLen == 1
MaxEmailLen == 3

FormNames == UNION { [1..n -> {"A", " "}] : n \in 0..MaxNameLen }

FormEmails ==
    {StoredUser.email} \cup UNION { [1..n -> {"a", "@", " "}] : n \in 0..MaxEmailLen }

FormPasswords ==
    {secret} \cup { [i \in 1..n |-> c] : n \in 0..(MinPasswordLength + 1), c \in {"s", " "} }

FormInit ==
    /\ user = Null
    /\ users = <<>>
    /\ isLoading = TRUE
    /\ value = [users |-> <<>>]
    /\ storage = [k \in {USER_KEY, USERS_KEY} |->
                     IF k = USER_KEY THEN Null ELSE stringifyUsers(<<StoredUser>>)]
    /\ loadpc = "getUser"
    /\ storedUser = Null
    /\ pending = <<>>
    /\ result = Outcome("none", "none")
    /\ calls = 0
    /\ input \in FormNames \X FormEmails \X FormPasswords
    /\ verdict = NoVerdict
    /\ errors = NoScreenErrors
    /\ route = "Login"
    /\ presses = 0

\* the Sign Up button is pressed over the name, email and password typed
pressSignup == handleSignup(input[1], input[2], input[3])

\* the Login button is pressed over the email and password typed
pressLogin == handleLogin(input[2], input[3])

FormNext ==
    \/ \E readOk \in BOOLEAN : LoadGetUser(readOk) /\ UNCHANGED screenVars
    \/ \E readOk \in BOOLEAN : LoadGetUsers(readOk) /\ UNCHANGED screenVars
    \/ Render /\ UNCHANGED screenVars
    \/ MayCall /\ pressLogin
    \/ MayCall /\ pressSignup
    \/ MayCall /\ goToSignup
    \/ MayCall /\ goToLogin
    \/ \E ok \in BOOLEAN : loginReturns(ok)
    \/ \E ok \in BOOLEAN : signupReturns(ok)

FormSpec == FormInit /\ [][FormNext]_vars

(***************************************************************************)
(* Properties.                                                             *)
(***************************************************************************)
Emailsof(us) == {us[i].email : i \in 1..Len(us)}

Accepted == Len(pending') = Len(pending) + 1

\* C1: in every reachable state, whatever the interleaving of signup, login and
\* logout calls and whichever context value they go through, no two entries of
\* the in-memory registry share an email.
C1_UniqueEmails == NoDuplicateEmail(users)

\* two signups of one email both passed the duplicate check (through a context
\* value older than the first one's append) and are in flight together
C1_Witness ==
    /\ Len(pending) = 2
    /\ pending[1].op = "signup" /\ pending[2].op = "signup"
    /\ pending[1].arg[Len(pending[1].arg)].email = pending[2].arg[Len(pending[2].arg)].email
    /\ users # <<>>

\* C2: signup reports the error of the first failing check, in the order name
\* required, email required, password required, email format, password length,
\* email already registered, and goes on exactly when all six pass.
C2_SignupCheckOrder ==
    [][calls' # calls =>
       \A n \in Names, e \in Emails, p \in Passwords :
        SignupCall(n, e, p) =>
            LET f1 == ~validateRequired(n)
                f2 == ~validateRequired(e)
                f3 == ~validateRequired(p)
                f4 == ~validateEmail(e)
                f5 == ~validatePassword(p)
                f6 == e \in Emailsof(users)
                msg == result'.outcome
            IN  /\ Accepted <=> ~(f1 \/ f2 \/ f3 \/ f4 \/ f5 \/ f6)
                /\ ~Accepted =>
                    /\ result'.op = "signup"
                    /\ msg = "Name is required" <=> f1
                    /\ msg = "Email is required" <=> ~f1 /\ f2
                    /\ msg = "Password is required" <=> ~f1 /\ ~f2 /\ f3
                    /\ msg = "Invalid email format" <=> ~f1 /\ ~f2 /\ ~f3 /\ f4
                    /\ msg = "Password must be at least 6 characters"
                           <=> ~f1 /\ ~f2 /\ ~f3 /\ ~f4 /\ f5
                    /\ msg = "Email already registered"
                           <=> ~f1 /\ ~f2 /\ ~f3 /\ ~f4 /\ ~f5 /\ f6
    ]_vars

\* a signup reached the sixth check and was refused there
C2_Witness ==
    /\ result = Outcome("signup", "Email already registered")
    /\ Len(users) = 1
    /\ pending = <<>>

\* C3: login reports the first failing check in the order email required,
\* password required, email format, and then one combined Invalid credentials
\* for an unknown email or a password that differs from the stored one; it
\* goes on exactly when an entry of the registry has that email and password.
C3_LoginCheckOrder ==
    [][calls' # calls =>
       \A e \in Emails, p \in Passwords :
        LoginCall(e, p) =>
            LET f1 == ~validateRequired(e)
                f2 == ~validateRequired(p)
                f3 == ~validateEmail(e)
                match == \E i \in 1..Len(users) :
                            users[i].email = e /\ users[i].password = p
                msg == result'.outcome
            IN  /\ Accepted <=> match
                /\ ~Accepted =>
                    /\ result'.op = "login"
                    /\ msg = "Email is required" <=> f1
                    /\ msg = "Password is required" <=> ~f1 /\ f2
                    /\ msg = "Invalid email format" <=> ~f1 /\ ~f2 /\ f3
                    /\ msg = "Invalid credentials" <=> ~f1 /\ ~f2 /\ ~f3 /\ ~match
    ]_vars

\* every well-formed email is registered, so the login just refused named a
\* registered email with a password that is not the stored one
C3_Witness ==
    /\ result = Outcome("login", "Invalid credentials")
    /\ Len(users) = 2
    /\ pending = <<>>

Last(us) == us[Len(us)]

\* C4: a valid signup of a new email appends {name, email, password}; once it
\* has returned success, a login with that email and password passes every
\* check and sets currentUser to that entry, and returns success when the
\* session write succeeds.
C4_RoundTrip ==
    [][/\ calls' # calls =>
          /\ \A n \in Names, e \in Emails, p \in Passwords :
                (SignupCall(n, e, p) /\ Accepted) =>
                    /\ users' # <<>>
                    /\ Last(users') = [name |-> n, email |-> e, password |-> p]
          /\ \A e \in Emails, p \in Passwords :
                ( /\ result = Outcome("signup", "ok")
                  /\ users # <<>>
                  /\ Last(users).email = e /\ Last(users).password = p
                  /\ LoginCall(e, p) ) =>
                    Accepted /\ user' = Last(users)
       /\ SaveUsersDone(1, TRUE) => result' = Outcome("signup", "ok") /\ users' = users
       /\ SaveUserDone(1, TRUE) =>
            /\ user' = user
            /\ result' = [op |-> "login", outcome |-> "ok", user |-> user]
    ]_vars

\* the second call of a run logged in the user the first call had signed up
C4_Witness ==
    /\ calls = 2
    /\ pending = <<>>
    /\ result.op = "login" /\ result.outcome = "ok"
    /\ user # Null
    /\ result.user = user
    /\ user = Last(users)
    /\ user.password = SECRET

\* C5: no step of a signup, whether it is refused, accepted, or returns with
\* success or with an error, changes currentUser or the persisted session.
C5_SignupKeepsSession ==
    [][( \/ /\ calls' # calls
            /\ \E n \in Names, e \in Emails, p \in Passwords : SignupCall(n, e, p)
         \/ \E ok \in BOOLEAN : SaveUsersDone(1, ok) )
        => /\ user' = user
           /\ storage'[USER_KEY] = storage[USER_KEY]
    ]_vars

\* a signup returned success while somebody else was logged in
C5_Witness ==
    /\ result = Outcome("signup", "ok")
    /\ pending = <<>>
    /\ user # Null
    /\ user # Last(users)
    /\ storage[USER_KEY] = stringifyUser(user)

\* C6: with well-formed arguments, a login naming an unregistered email and a
\* login naming a registered email with another password are refused the same
\* way: the result is Invalid credentials and nothing else changes, so the
\* state after the call does not depend on which of the two it was.
C6_NonEnumeration ==
    [][calls' # calls =>
       \A e \in Emails, p \in Passwords :
        ( /\ LoginCall(e, p)
          /\ validateRequired(e) /\ validateRequired(p) /\ validateEmail(e)
          /\ \/ e \notin Emailsof(users)
             \/ \E i \in 1..Len(users) : users[i].email = e /\ users[i].password # p )
        => /\ result' = Outcome("login", "Invalid credentials")
           /\ UNCHANGED <<user, users, isLoading, value, storage, loadpc,
                          storedUser, pending>>
    ]_vars

\* a login was refused in a state that offers both cases: one well-formed
\* email is registered and the other is not
C6_Witness ==
    /\ result = Outcome("login", "Invalid credentials")
    /\ Len(users) = 1
    /\ pending = <<>>

\* C7: while a logout is in flight currentUser is absent, and once it has
\* returned success currentUser is absent and the session key is removed.
C7_LogoutClearsSession ==
    /\ (pending # <<>> /\ pending[1].op = "logout") => user = Null
    /\ (pending = <<>> /\ result = Outcome("logout", "ok")) =>
            user = Null /\ storage[USER_KEY] = Null

\* a logout called right after a successful login is in flight: currentUser is
\* already absent and the session of that login is still in storage
C7_Witness ==
    /\ pending = << [op |-> "logout", arg |-> Null] >>
    /\ result.op = "login" /\ result.outcome = "ok"
    /\ storage[USER_KEY] = stringifyUser(result.user)
    /\ user = Null

C9_UniquenessCount ==
    [][loadpc = "done" =>
        /\ \/ users' = users
           \/ /\ calls' # calls
              /\ \E n \in Names, e \in Emails, p \in Passwords :
                    /\ SignupCall(n, e, p)
                    /\ e \notin Emailsof(users)
                    /\ users' = Append(users, [name |-> n, email |-> e, password |-> p])
        /\ calls' # calls =>
           \A n \in Names, e \in Emails, p \in Passwords :
              SignupCall(n, e, p) =>
                 IF Accepted THEN Len(users') = Len(users) + 1
                             ELSE users' = users
    ]_vars

\* two signups of distinct emails from the empty registry made two entries,
\* and the third call, a signup of one of the two emails, left them
C9_Witness ==
    /\ calls = 3
    /\ result = Outcome("signup", "Email already registered")
    /\ pending = <<>>
    /\ Len(users) = 2
    /\ users[1].password = SECRET
    /\ users[1].email # users[2].email

\* C10: a launch whose read of the session key succeeds finds the user of the
\* last successful login when no call followed it, and finds nothing when the
\* key holds nothing; the launch ends with currentUser equal to what it found.
C10_SessionRestored ==
    [][/\ LoadGetUser(TRUE) =>
            /\ (result.op = "login" /\ result.outcome = "ok") =>
                    storedUser' = result.user
            /\ storage[USER_KEY] = Null => storedUser' = Null
       /\ (\E readOk \in BOOLEAN : LoadGetUsers(readOk)) =>
            /\ user' = storedUser
            /\ ~isLoading'
    ]_vars

\* a relaunch after a successful login has ended, before its first render, with
\* currentUser equal to the user of that login
C10_Witness ==
    /\ loadpc = "done"
    /\ ~isLoading
    /\ value = [users |-> <<>>]
    /\ users # <<>>
    /\ result.op = "login" /\ result.outcome = "ok"
    /\ user = result.user

\* C11: an accepted signup sets the in-memory registry to the registry before
\* the call followed by {name, email, password}, and hands that same list to
\* saveUsers without touching storage; when the write lands, the registry key
\* holds the text of that full list, which the in-memory registry already is.
C11_FullRegistryWritten ==
    [][/\ calls' # calls =>
          \A n \in Names, e \in Emails, p \in Passwords :
            (SignupCall(n, e, p) /\ Accepted) =>
                LET full == Append(users, [name |-> n, email |-> e, password |-> p])
                IN  /\ users' = full
                    /\ pending' = <<[op |-> "signup", arg |-> full]>>
                    /\ storage' = storage
       /\ SaveUsersDone(1, TRUE) =>
            /\ users = pending[1].arg
            /\ storage'[USERS_KEY] = stringifyUsers(users)
            /\ parseUsers(storage'[USERS_KEY]) = users
            /\ storage'[USER_KEY] = storage[USER_KEY]
    ]_vars

\* a signup into a registry of one user returned success: the registry key
\* holds both users, the new one last
C11_Witness ==
    /\ result = Outcome("signup", "ok")
    /\ pending = <<>>
    /\ Len(users) = 2
    /\ storage[USERS_KEY] = stringifyUsers(users)

\* C12: a launch absorbs read failures.  A session read that fails or finds
\* an unparsable text yields no user, and the launch then ends with
\* currentUser absent; a registry read that fails or finds an unparsable text
\* yields the empty registry.  Each read stands alone: a readable registry is
\* loaded whatever the session read gave, and a stored session is restored
\* whatever the registry read gave.  No outcome is delivered to a caller, and
\* the launch ends with isLoading false in every case.
C12_ReadFailuresAbsorbed ==
    [][/\ LoadGetUser(FALSE) => storedUser' = Null
       /\ (LoadGetUser(TRUE) /\ storage[USER_KEY] = Corrupt) => storedUser' = Null
       /\ (\E readOk \in BOOLEAN : LoadGetUser(readOk)) =>
            /\ loadpc' = "getUsers"
            /\ result' = result
       /\ LoadGetUsers(FALSE) => users' = <<>>
       /\ (LoadGetUsers(TRUE) /\ storage[USERS_KEY] = Corrupt) => users' = <<>>
       /\ (LoadGetUsers(TRUE) /\ storage[USERS_KEY] \notin {Null, Corrupt}) =>
            users' = parseUsers(storage[USERS_KEY])
       /\ (\E readOk \in BOOLEAN : LoadGetUsers(readOk)) =>
            /\ storedUser = Null => user' = Null
            /\ storedUser # Null => user' = storedUser
            /\ ~isLoading'
            /\ loadpc' = "done"
            /\ result' = result
    ]_vars

\* the first launch has ended over a stored session and a stored registry:
\* the session read failed, so nobody is logged in, and the registry was
\* loaded all the same
C12_Witness ==
    /\ calls = 0
    /\ loadpc = "done"
    /\ ~isLoading
    /\ storage[USER_KEY] = stringifyUser(StoredUser)
    /\ user = Null
    /\ users = <<StoredUser>>

\* C13: isLoading is true in the initial state; it is false once both reads
\* of the launch have returned, which happens in the end whether they succeed
\* or fail; and from a state where it is false no step, of a signup, a login,
\* a logout or anything else, makes it true again.
C13_LoadingLifecycle ==
    /\ isLoading = TRUE
    /\ <>(~isLoading)
    /\ [](loadpc = "done" => ~isLoading)
    /\ [][~isLoading => ~isLoading']_vars

\* calls followed the launch, one is still in flight, and isLoading is false
C13_Witness ==
    /\ ~isLoading
    /\ loadpc = "done"
    /\ calls >= 2
    /\ pending # <<>>
    /\ result.op = "logout"

\* C14: when the write of an accepted signup fails, signup returns Failed to
\* save user data, the in-memory registry keeps the new user as its last
\* entry, and storage is as it was; a login with that user's email and
\* password made next passes every check and sets currentUser to that user,
\* and returns success when its session write succeeds.
C14_SignupWriteFailure ==
    [][/\ SaveUsersDone(1, FALSE) =>
            /\ result' = Outcome("signup", "Failed to save user data")
            /\ users = pending[1].arg
            /\ users' = users
            /\ storage' = storage
       /\ calls' # calls =>
          \A e \in Emails, p \in Passwords :
            ( /\ result = Outcome("signup", "Failed to save user data")
              /\ users # <<>>
              /\ Last(users).email = e /\ Last(users).password = p
              /\ LoginCall(e, p) ) =>
                /\ Accepted
                /\ user' = Last(users)
                /\ pending' = <<[op |-> "login", arg |-> Last(users)]>>
       /\ (SaveUserDone(1, TRUE) /\ storage[USERS_KEY] # stringifyUsers(users)) =>
            result' = [op |-> "login", outcome |-> "ok", user |-> user]
    ]_vars

\* the signup of the first call lost its write, so that nothing was ever
\* stored under the registry key, and the login of the second call succeeded
C14_Witness ==
    /\ calls = 2
    /\ pending = <<>>
    /\ storage[USERS_KEY] = Null
    /\ users # <<>>
    /\ Last(users).password = SECRET
    /\ result = [op |-> "login", outcome |-> "ok", user |-> Last(users)]
    /\ user = Last(users)

\* C15: a login whose credentials match sets currentUser to the matched entry
\* before its session write; when that write fails, login returns Failed to
\* save session, currentUser stays that entry and storage is as it was.
C15_LoginWriteFailure ==
    [][/\ calls' # calls =>
          \A e \in Emails, p \in Passwords :
            (LoginCall(e, p) /\ Accepted) =>
                /\ \E i \in 1..Len(users) :
                      /\ users[i].email = e /\ users[i].password = p
                      /\ user' = users[i]
                /\ pending' = <<[op |-> "login", arg |-> user']>>
       /\ SaveUserDone(1, FALSE) =>
            /\ result' = Outcome("login", "Failed to save session")
            /\ user = pending[1].arg
            /\ user' = user
            /\ storage' = storage
    ]_vars

\* a login returned Failed to save session: its user is the current user in
\* memory and no session is stored
C15_Witness ==
    /\ result = Outcome("login", "Failed to save session")
    /\ pending = <<>>
    /\ user # Null
    /\ \E i \in 1..Len(users) : users[i] = user
    /\ storage[USER_KEY] = Null

\* C16: a logout, called with or without a current user, makes currentUser
\* absent before the removal is attempted (storage is untouched by the call
\* itself); currentUser is absent when the removal answers and stays so; when
\* the removal fails, logout returns Failed to clear session and storage is
\* as it was.
C16_LogoutEffectiveInMemory ==
    [][/\ LogoutCall =>
            /\ user' = Null
            /\ storage' = storage
            /\ pending' = <<[op |-> "logout", arg |-> Null]>>
       /\ (\E ok \in BOOLEAN : RemoveUserDone(1, ok)) =>
            /\ user = Null
            /\ user' = Null
       /\ RemoveUserDone(1, FALSE) =>
            /\ result' = Outcome("logout", "Failed to clear session")
            /\ storage' = storage
    ]_vars

\* a logout returned Failed to clear session: nobody is logged in and the
\* session it failed to remove is still stored
C16_Witness ==
    /\ result = Outcome("logout", "Failed to clear session")
    /\ pending = <<>>
    /\ user = Null
    /\ storage[USER_KEY] \notin {Null, Corrupt}

\* the positions of s that hold "@"
Ats(s) == {i \in 1..Len(s) : s[i] = "@"}

\* C17, as stated: validateEmail returns false for every string whose first
\* or whose last character is "@".
C17_AtFirstOrLastRejected ==
    ( /\ verdict.fn = "validateEmail"
      /\ input # <<>>
      /\ (input[1] = "@" \/ input[Len(input)] = "@") )
    => verdict.out = FALSE

\* C17, amended: validateEmail returns false for every string whose first
\* character is "@" and for every string whose last character is its only
\* "@"; a string that ends in "@" and has an earlier "@" after its first
\* character is accepted.
C17_FirstAtFirstOrLastRejected ==
    /\ ( /\ verdict.fn = "validateEmail"
         /\ input # <<>>
         /\ (input[1] = "@" \/ Ats(input) = {Len(input)}) )
       => verdict.out = FALSE
    /\ ( /\ verdict.fn = "validateEmail"
         /\ input # <<>>
         /\ input[1] # "@"
         /\ input[Len(input)] = "@"
         /\ Ats(input) # {Len(input)} )
       => verdict.out = TRUE

\* validateEmail refused a string whose last character is its only "@"
C17_Witness ==
    /\ verdict = [fn |-> "validateEmail", out |-> FALSE]
    /\ Len(input) >= 2
    /\ Ats(input) = {Len(input)}

\* the first position of s that holds "@" (s has one)
FirstAt(s) == CHOOSE i \in Ats(s) : \A j \in Ats(s) : i <= j

\* C18: validateEmail returns true exactly for the non-empty strings that
\* contain "@" and whose first "@" is neither their first nor their last
\* character; so it refuses every string without "@", and accepts a@b and
\* a@@b.
C18_ValidEmailExactly ==
    verdict.fn = "validateEmail" =>
        /\ verdict.out <=> ( /\ input # <<>>
                             /\ Ats(input) # {}
                             /\ FirstAt(input) # 1
                             /\ FirstAt(input) # Len(input) )
        /\ Ats(input) = {} => verdict.out = FALSE
        /\ input = <<"a", "@", "b">> => verdict.out = TRUE
        /\ input = <<"a", "@", "@", "b">> => verdict.out = TRUE

\* validateEmail accepted a@@b
C18_Witness ==
    /\ input = <<"a", "@", "@", "b">>
    /\ verdict = [fn |-> "validateEmail", out |-> TRUE]

\* C19: validatePassword returns false for every string of fewer than six
\* characters, the empty string included, and true for every string of six
\* characters or more, whatever the characters: six blanks are accepted.
C19_ValidPasswordByLength ==
    verdict.fn = "validatePassword" =>
        /\ Len(input) < 6 => verdict.out = FALSE
        /\ Len(input) >= 6 => verdict.out = TRUE
        /\ input = <<" ", " ", " ", " ", " ", " ">> => verdict.out = TRUE

\* validatePassword accepted six blanks
C19_Witness ==
    /\ input = <<" ", " ", " ", " ", " ", " ">>
    /\ verdict = [fn |-> "validatePassword", out |-> TRUE]

\* C20: validateRequired returns false for the empty string and for every
\* string of blanks and tabs only, and true for every string with at least
\* one other character, wherever it stands.
C20_RequiredIffNonWhitespace ==
    verdict.fn = "validateRequired" =>
        /\ input = <<>> => verdict.out = FALSE
        /\ (\A i \in 1..Len(input) : input[i] \in {" ", "\t"}) => verdict.out = FALSE
        /\ (\E i \in 1..Len(input) : input[i] \notin {" ", "\t"}) => verdict.out = TRUE

\* validateRequired refused a string of a blank and a tab
C20_Witness ==
    /\ input = <<" ", "\t">>
    /\ verdict = [fn |-> "validateRequired", out |-> FALSE]

\* C21: the navigator shows the loading indicator whenever isLoading is
\* true; when isLoading is false it shows Home exactly when there is a
\* current user and the Login/Signup stack exactly when there is none.  So
\* Home is never shown without a current user, and a logout leaves the
\* Login/Signup stack shown (once loaded), never Home.
C21_ScreenSelection ==
    /\ [](isLoading => AppNavigator = "Loading")
    /\ [](~isLoading => /\ AppNavigator = "Home" <=> user # Null
                        /\ AppNavigator = "Auth" <=> user = Null)
    /\ [](AppNavigator = "Home" => user # Null)
    /\ [][LogoutCall => /\ AppNavigator' # "Home"
                        /\ ~isLoading => AppNavigator' = "Auth"]_vars

\* a logout was called right after a login had returned success, and the
\* Login/Signup stack is shown
C21_Witness ==
    /\ ~isLoading
    /\ pending # <<>>
    /\ pending[Len(pending)].op = "logout"
    /\ result.op = "login" /\ result.outcome = "ok"
    /\ AppNavigator = "Auth"

C23_SignupNavigation ==
    /\ [][presses' # presses /\ route = "Signup" =>
            /\ route' = "Signup"
            /\ user' = user /\ storage' = storage
            /\ pending' = pending =>
                   /\ errors'.Signup # NoErrors
                   /\ users' = users]_vars
    /\ [][Len(pending') < Len(pending) /\ pending[1].op = "signup" =>
            /\ route = "Signup"
            /\ route' = "Login" <=> result'.outcome = "ok"
            /\ result'.outcome # "ok" =>
                   /\ route' = "Signup"
                   /\ errors'.Signup.general = "Failed to save user data"
                   /\ find(users', Last(pending[1].arg).email) # Null
            /\ user' = user /\ storage'[USER_KEY] = storage[USER_KEY]]_vars
    /\ [](route = "Signup" => user = Null)

\* the first submit of the Signup form was accepted and persisted, and the
\* Login screen is in front
C23_Witness ==
    /\ presses = 1
    /\ result.op = "signup" /\ result.outcome = "ok"
    /\ route = "Login"
    /\ user = Null

IsPrefix(s, t) == Len(s) <= Len(t) /\ SubSeq(t, 1, Len(s)) = s

\* C24: once the initial load is done the in-memory registry is append-only:
\* whatever signup, login or logout does, the registry after the step has
\* the registry before the step as a prefix.
C24_AppendOnly ==
    [][loadpc = "done" => IsPrefix(users, users')]_vars

\* C25: no update is lost between overlapping signups.  While two accepted
\* signups of distinct emails, the first two calls of a loaded application,
\* are both in flight, the one issued second has
\* read the registry with the first one's append in it, so the registry it
\* is about to persist holds both users, and the in-memory registry holds
\* both users.
C25_NoLostUpdate ==
    \A i, j \in 1..Len(pending) :
        (/\ i < j
         /\ loadpc = "done" /\ calls = 2
         /\ pending[i].op = "signup" /\ pending[j].op = "signup"
         /\ Last(pending[i].arg).email # Last(pending[j].arg).email)
        => /\ find(pending[j].arg, Last(pending[i].arg).email) # Null
           /\ find(users, Last(pending[i].arg).email) # Null
           /\ find(users, Last(pending[j].arg).email) # Null

\* C26: a login issued after a signup of the same credentials has returned
\* success does not fail with 'Invalid credentials', whatever context value
\* the two calls are made through.  The signup is the first call of the
\* application and has returned, so the user it registered is the last one
\* of the persisted registry.
C26_LoginAfterSignup ==
    [][(/\ calls = 1 /\ pending = <<>> /\ loadpc = "done"
        /\ result = Outcome("signup", "ok")
        /\ LoginCall(Last(getUsers(TRUE)).email, Last(getUsers(TRUE)).password))
       => result'.outcome # "Invalid credentials"]_vars

\* C27: a rejected call changes nothing.  A signup that returns one of its
\* six validation errors, and a login that returns a validation error or
\* 'Invalid credentials', leave the current user, the in-memory registry and
\* both persisted keys as they were and start no storage write or remove; a
\* failed login while a user is logged in leaves that session intact.  The
\* five input checks of signup and the three of login depend only on the
\* arguments: an input that fails one of them over the empty registry fails
\* the same way in every state.
C27_RejectedChangesNothing ==
    [][calls' # calls /\ pending' = pending =>
        /\ user' = user /\ users' = users /\ storage' = storage
        /\ result'.outcome \in
              {"Name is required", "Email is required", "Password is required",
               "Invalid email format", "Password must be at least 6 characters",
               "Email already registered", "Invalid credentials"}
        /\ \A n \in Names, e \in Emails, p \in Passwords :
              SignupCall(n, e, p) =>
                 \/ result'.outcome = signupCheck(n, e, p, <<>>)
                 \/ /\ signupCheck(n, e, p, <<>>) = "ok"
                    /\ result'.outcome = "Email already registered"
        /\ \A e \in Emails, p \in Passwords :
              LoginCall(e, p) => result'.outcome = loginCheck(e, p, <<>>)]_vars

\* a login was rejected with 'Invalid credentials' while a user was logged
\* in, and the session is still there in memory and in storage
C27_Witness ==
    /\ result = Outcome("login", "Invalid credentials")
    /\ pending = <<>>
    /\ user # Null
    /\ storage[USER_KEY] = stringifyUser(user)
    /\ users # <<>>

\* C28: emails are matched exactly, letter case included, by the duplicate
\* check of signup and by the lookup of login.  A signup with otherwise valid
\* input is rejected as 'Email already registered' exactly when the registry
\* holds that very email, so an email differing only in case from a
\* registered one is accepted as a distinct user; and a login with an email
\* that differs only in case from a registered one, and is not itself
\* registered, returns 'Invalid credentials'.
C28_CaseSensitiveEmails ==
    [][calls' # calls =>
        /\ \A n \in Names, e \in Emails, p \in Passwords :
              (SignupCall(n, e, p) /\ signupCheck(n, e, p, <<>>) = "ok") =>
                 /\ e \in Emailsof(users) =>
                        /\ pending' = pending
                        /\ result' = Outcome("signup", "Email already registered")
                 /\ e \notin Emailsof(users) =>
                        /\ Accepted
                        /\ Last(users') = [name |-> n, email |-> e, password |-> p]
        /\ \A e \in Emails, p \in Passwords :
              (/\ LoginCall(e, p)
               /\ validateEmail(e) /\ validateRequired(p)
               /\ e \notin Emailsof(users)
               /\ \E i \in 1..Len(users) : toLowerCase(users[i].email) = toLowerCase(e))
              => /\ pending' = pending
                 /\ result' = Outcome("login", "Invalid credentials")]_vars

\* two users whose emails differ only in the case of a letter are both
\* registered, the second by a signup that returned success
C28_Witness ==
    /\ Len(users) = 2
    /\ users[1].email # users[2].email
    /\ toLowerCase(users[1].email) = toLowerCase(users[2].email)
    /\ result = Outcome("signup", "ok")
    /\ pending = <<>>

\* C29: a signup, login or logout invoked before the initial load has
\* completed is rejected or deferred: while the load is not done, no step
\* other than the load's own changes the current user, the in-memory
\* registry or storage.
C29_NotReadyNoEffect ==
    [][loadpc # "done" /\ loadpc' = loadpc =>
          UNCHANGED <<user, users, storage>>]_vars

\* the users a text under the registry key holds
Entries(stored) ==
    IF stored \in {Null, Corrupt} THEN {}
    ELSE {parseUsers(stored)[i] : i \in 1..Len(parseUsers(stored))}

\* C30: the persisted registry never loses a user: every value written
\* under the registry key holds every user of the value it replaces,
\* whatever the sequence and interleaving of operations.
C30_PersistedRegistryGrows ==
    [][Entries(storage[USERS_KEY]) \subseteq Entries(storage'[USERS_KEY])]_vars

\* C31: whenever the initial load is done, no operation is in flight and a
\* current user is present, that user is an entry of the in-memory registry,
\* with the same name, email and password.
C31_SessionUserRegistered ==
    (loadpc = "done" /\ pending = <<>> /\ user # Null)
        => \E i \in 1..Len(users) : users[i] = user

\* C32: memory and storage agree on the session at quiescence.  Over a
\* storage none of whose operations fails, whenever the load is done and no
\* operation is in flight, the session read back from storage is the current
\* user: absent when there is none, the same user when there is one.  This
\* holds whatever the interleaving of the calls and the order in which their
\* storage operations complete.
C32_SessionAgreesAtQuiescence ==
    (loadpc = "done" /\ pending = <<>>) => getUser(TRUE) = user

\* C33: a logged-out user stays logged out across a restart.  When the last
\* operation to have returned is a logout, with success or with an error,
\* and the application is launched again over the same storage, the launch
\* ends with no current user.
C33_LoggedOutAcrossRestart ==
    [][((\E readOk \in BOOLEAN : LoadGetUsers(readOk)) /\ result.op = "logout")
          => user' = Null]_vars

\* C34: with operations issued one at a time, when a signup returns success
\* the persisted registry equals the in-memory registry; so a user whose own
\* signup failed to persist is persisted by the next successful signup.
C34_SuccessfulSignupPersistsAll ==
    [][SaveUsersDone(1, TRUE) =>
          /\ result' = Outcome("signup", "ok")
          /\ storage'[USERS_KEY] \notin {Null, Corrupt}
          /\ parseUsers(storage'[USERS_KEY]) = users'
          /\ (result = Outcome("signup", "Failed to save user data") /\ Len(users) >= 2)
                => /\ users[Len(users) - 1] \in Entries(storage'[USERS_KEY])
                   /\ users[Len(users)] \in Entries(storage'[USERS_KEY])]_vars

\* a signup returned 'Failed to save user data' and left its user in memory
\* only; the next signup has been accepted and is about to persist both
C34_Witness ==
    /\ result = Outcome("signup", "Failed to save user data")
    /\ Len(pending) = 1 /\ pending[1].op = "signup"
    /\ Len(users) = 2
    /\ pending[1].arg = users
    /\ storage[USERS_KEY] = Null

\* C35: the forms and the Auth Manager accept the same inputs.  A press of
\* Sign Up reaches auth.signup exactly when the five input checks of signup
\* pass on the name, email and password typed, and a press of Login reaches
\* auth.login exactly when the three input checks of login pass on the email
\* and password typed; so a call made through the screens is rejected only
\* with 'Email already registered' or 'Invalid credentials', and returns
\* only success or a persistence failure.
C35_FormsMatchAuthChecks ==
    /\ [][presses' # presses =>
            /\ pressSignup =>
                 /\ calls' # calls <=>
                        signupCheck(input[1], input[2], input[3], <<>>) = "ok"
                 /\ (calls' # calls /\ pending' = pending) =>
                        result' = Outcome("signup", "Email already registered")
            /\ pressLogin =>
                 /\ calls' # calls <=>
                        loginCheck(input[2], input[3], <<>>) = "Invalid credentials"
                 /\ (calls' # calls /\ pending' = pending) =>
                        result' = Outcome("login", "Invalid credentials")]_vars
    /\ [](result.outcome \in {"none", "ok", "Email already registered",
                               "Invalid credentials", "Failed to save user data",
                               "Failed to save session"})

\* a form that passed validation reached auth.signup, which answered that the
\* email typed is registered already; the screen shows that message
C35_Witness ==
    /\ presses = 1
    /\ calls = 1
    /\ SignupValidateForm(input[1], input[2], input[3]) = NoErrors
    /\ result = Outcome("signup", "Email already registered")
    /\ errors.Signup = General("Email already registered")

====
